---- MODULE Spec2Model ----
(***************************************************************************)
(* A model of the MINIX v3 image reader (fs_util.c, minls.c, minget.c).    *)
(*                                                                         *)
(* The image file is a constant of a behaviour. It is modelled through     *)
(* typed views keyed by byte offset: the partition-table view of a sector, *)
(* the superblock view, the inode view, the zone-table view (an array of   *)
(* 32-bit zone numbers), the directory view and the raw data bytes. A read *)
(* succeeds when the whole range lies inside the image (fseek past the end *)
(* succeeds, the short fread that follows does not).                       *)
(*                                                                         *)
(* malloc and fopen of an existing image are taken to succeed.  The main   *)
(* specifications draw the superblock from well-formed geometries          *)
(* (blksize a positive multiple of 4, small non-negative log_zone_size).   *)
(***************************************************************************)
EXTENDS Integers, Sequences, FiniteSets, TLC

VARIABLES image, argv, pc, image_fp, fs_offset, curr_sb, blks_per_zone,
          zone_size, call, cp, cn, rs, tl

vars == <<image, argv, pc, image_fp, fs_offset, curr_sb, blks_per_zone,
          zone_size, call, cp, cn, rs, tl>>

----------------------------------------------------------------------------
(* Program constants (fs_util.h)                                           *)

DIRECT_ZONES == 7
INODE_SIZE == 64
DIR_ENTRY_SIZE == 64
SECTOR_SIZE == 512
PARTITION_TABLE_OFFSET == 446
NAME_SIZE == 60
SUPERBLK_SIZE == 31
SUPERBLK_OFFSET == 1024
PTR_SIZE == 4
MINIX_MAGIC == 19802
MINIX_PART_TYPE == 129
SIG_510 == 85
SIG_511 == 170
PATH_COPY_MAX == 1023
TYPE_DIR == 16384
TYPE_REG == 32768
U16 == 65536

----------------------------------------------------------------------------
(* Bounds of the model                                                     *)

MaxLogZone == 1
MaxPathLen == 8
ExtraBlks == 2
MaxSteps == 64
LongComponents == 17

----------------------------------------------------------------------------
(* Small helpers                                                           *)

Min(a, b) == IF a < b THEN a ELSE b

RECURSIVE Pow2(_)
Pow2(n) == IF n = 0 THEN 1 ELSE 2 * Pow2(n - 1)

Rep(c, n) == [i \in 1..n |-> c]

Take(s, n) == SubSeq(s, 1, Min(n, Len(s)))

\* mode & 0170000: the file-type bits of a 16-bit mode.
FileType(mode) == mode - (mode % 4096)

\* (a * b + c) modulo 2^32 for a 32-bit a and b, c below 2^15, computed on
\* 16-bit halves (the product itself does not fit the checker's integers).
MulAddU32(a, b, c) ==
  LET lo == (a % U16) * b + c
      hi == ((a \div U16) * b + lo \div U16) % U16
  IN hi * U16 + (lo % U16)

----------------------------------------------------------------------------
(* On-disk records (fs_util.h)                                             *)

partition_entry_t(type, lFirst) == [type |-> type, lFirst |-> lFirst]

NoPart == partition_entry_t(0, 0)

Sector(b510, b511, pt) == [b510 |-> b510, b511 |-> b511, pt |-> pt]

ZeroSector == Sector(0, 0, <<NoPart, NoPart, NoPart, NoPart>>)

minix_superblk_t(ninodes, i_blks, z_blks, lzs, magic, blksize) ==
  [ninodes |-> ninodes, i_blks |-> i_blks, z_blks |-> z_blks,
   firstdata |-> 0, log_zone_size |-> lzs, max_file |-> 0, zones |-> 0,
   magic |-> magic, blksize |-> blksize, subversion |-> 0]

ZeroSb == minix_superblk_t(0, 0, 0, 0, 0, 0)

minix_inode_t(mode, size, zone, indirect, two_indirect) ==
  [mode |-> mode, size |-> size, zone |-> zone, indirect |-> indirect,
   two_indirect |-> two_indirect]

ZeroInode == minix_inode_t(0, 0, Rep(0, DIRECT_ZONES), 0, 0)

minix_dir_entry_t(inode, name) == [inode |-> inode, name |-> name]

----------------------------------------------------------------------------
(* The image file and the typed views of its bytes                         *)

\* The byte stored at absolute offset o of the data area: never zero, and
\* different at neighbouring offsets and at neighbouring blocks.
DiskByte(o) == (o % 251) + 1

SectorAt(off) ==
  IF off \in DOMAIN image.sect THEN image.sect[off] ELSE ZeroSector

SbAt(off) == IF off \in DOMAIN image.sb THEN image.sb[off] ELSE ZeroSb

InodeAt(off) ==
  IF off \in DOMAIN image.ino THEN image.ino[off] ELSE ZeroInode

\* A block read as an array of 32-bit zone numbers.
TableAt(off, nptrs) ==
  IF off \in DOMAIN image.tbl THEN Take(image.tbl[off], nptrs)
  ELSE Rep(0, nptrs)

\* A block read as an array of directory entries.
DirAt(off) == IF off \in DOMAIN image.dir THEN image.dir[off] ELSE <<>>

DataAt(off, n) == [k \in 1..n |-> DiskByte(off + k - 1)]

\* fseek then fread of n bytes at absolute offset off (fs_util.c:88-98).
ReadOK(off, n) == off >= 0 /\ (n = 0 \/ off + n <= image.size)

Rd(off, n) == [off |-> off, n |-> n, ok |-> ReadOK(off, n)]

----------------------------------------------------------------------------
(* Images with partition tables: the table of sector 0, the table at the   *)
(* start of each partition, and a superblock after every possible base.    *)

GoodSig == <<SIG_510, SIG_511>>
SwappedSig == <<SIG_511, SIG_510>>
NoSig == <<0, 0>>

\* The superblock found 1024 bytes after base: ninodes names the base.
PartSb(base, magic) == minix_superblk_t(1 + base \div SECTOR_SIZE, 1, 1, 0, magic, 8)

PartImage(sig0, t0, l0, sig1, t1, l1, size, badbase) ==
  LET sec0 == Sector(sig0[1], sig0[2],
                     <<partition_entry_t(t0, l0),
                       partition_entry_t(MINIX_PART_TYPE, 6), NoPart,
                       partition_entry_t(131, 2)>>)
      sub == Sector(sig1[1], sig1[2],
                    <<partition_entry_t(t1, l1), NoPart,
                      partition_entry_t(MINIX_PART_TYPE, 6), NoPart>>)
      sec6 == Sector(SIG_510, SIG_511,
                     <<partition_entry_t(MINIX_PART_TYPE, 4), NoPart, NoPart,
                       NoPart>>)
      bases == {0, 1024, 2048, 3072}
  IN [exists |-> TRUE, size |-> size,
      sect |-> IF l0 = 0 THEN (0 :> sec0 @@ 3072 :> sec6)
               ELSE (0 :> sec0 @@ (l0 * SECTOR_SIZE) :> sub @@ 3072 :> sec6),
      sb |-> [o \in {b + SUPERBLK_OFFSET : b \in bases} |->
                PartSb(o - SUPERBLK_OFFSET,
                       IF o - SUPERBLK_OFFSET = badbase THEN 23117
                       ELSE MINIX_MAGIC)],
      ino |-> <<>>, tbl |-> <<>>, dir |-> <<>>]

PartImages ==
  {PartImage(sig0, t0, l0, sig1, t1, l1, 4608, -1) :
     sig0 \in {GoodSig, SwappedSig, NoSig}, t0 \in {MINIX_PART_TYPE, 131},
     l0 \in {0, 2}, sig1 \in {GoodSig, SwappedSig},
     t1 \in {MINIX_PART_TYPE, 131}, l1 \in {0, 4}}
  \cup
  {PartImage(GoodSig, MINIX_PART_TYPE, 2, GoodSig, MINIX_PART_TYPE, 4, size, bad) :
     size \in {4608, 1536, 1040, 256}, bad \in {-1, 0, 1024, 2048}}

NoImage ==
  [exists |-> FALSE, size |-> 0, sect |-> <<>>, sb |-> <<>>, ino |-> <<>>,
   tbl |-> <<>>, dir |-> <<>>]

\* tool "api" stands for a caller of the library functions of fs_util.h;
\* "minls" and "minget" for the main of the list and of the extract tool.
\* dst tells whether the extract tool was given a destination path.
PartArgs ==
  [p_num : {-1, 0, 1, 3, 4, -2}, s_num : {-1, 0, 2, 4}, tool : {"api"},
   path : {<<>>}, dst : {FALSE}]

NoArgs ==
  [p_num |-> -1, s_num |-> -1, tool |-> "api", path |-> <<>>, dst |-> FALSE]

----------------------------------------------------------------------------
(* Images of a bare filesystem holding regular files with direct, single   *)
(* indirect and double indirect zones, holes and unreadable zones.         *)

BadZone == 1000

\* Offset of inode n in an image whose bitmaps take one block each.
InoOff(bs, n) == (2 + 1 + 1) * bs + (n - 1) * INODE_SIZE

MapImage(bs, lzs, magic, t20, t21, t22) ==
  LET bpz == Pow2(lzs)
      zs == bs * bpz
      P == bs \div PTR_SIZE
      reg == TYPE_REG + 420
      full == (DIRECT_ZONES + P + P * P + ExtraBlks) * zs
      inodes ==
        << minix_inode_t(reg, full - 3, <<300, 0, 301, 302, 0, 303, 304>>,
                         320, 321),
           minix_inode_t(reg, 2 * bs + 1,
                         <<305, 306, 307, 308, 309, 310, 311>>, 0, 0),
           minix_inode_t(reg, (DIRECT_ZONES + P + 1) * zs,
                         <<0, 0, 0, 0, 0, 0, 312>>, BadZone, BadZone),
           minix_inode_t(reg, 3 * zs, <<313, BadZone, 314, 0, 0, 0, 0>>,
                         0, 321),
           minix_inode_t(TYPE_DIR + 493, 0, Rep(0, DIRECT_ZONES), 320, 0) >>
  IN [exists |-> TRUE, size |-> 400 * zs,
      sect |-> <<>>,
      sb |-> (SUPERBLK_OFFSET :>
                minix_superblk_t(Len(inodes), 1, 1, lzs, magic, bs)),
      ino |-> [o \in {InoOff(bs, n) : n \in 1..Len(inodes)} |->
                 inodes[(o - 4 * bs) \div INODE_SIZE + 1]],
      tbl |-> (320 * zs :> t20 @@ 321 * zs :> t21 @@ 322 * zs :> t22
               @@ 323 * zs :> <<319, 0>>),
      dir |-> <<>>]

BlkSizes == {4, 8}

MapImages ==
  {MapImage(bs, lzs, MINIX_MAGIC, t20, t21, t22) :
     bs \in BlkSizes, lzs \in 0..MaxLogZone,
     t20 \in {<<315, 0>>, <<0, 316>>},
     t21 \in {<<322, 323>>, <<0, 322>>, <<BadZone, 0>>},
     t22 \in {<<317, 0>>, <<0, 318>>}}
  \cup
  {MapImage(bs, 0, magic, <<315, 0>>, <<322, 323>>, <<317, 0>>) :
     bs \in BlkSizes, magic \in {23117, 0}}

----------------------------------------------------------------------------
(* Images of a bare filesystem holding directories. Names are the 60 bytes *)
(* of the name field.                                                      *)

SLASH == 47
CH_A == 97
CH_B == 98
NUL == 0
DOT == 46

\* A name field holding a short name, NUL padded.
Pad(name) == name \o Rep(NUL, NAME_SIZE - Len(name))

EntryNames ==
  {Pad(<<CH_A>>), Pad(<<CH_A, CH_B>>), Pad(<<CH_B>>), Rep(CH_A, NAME_SIZE),
   Pad(Rep(CH_A, NAME_SIZE - 1)), Pad(<<CH_A, NUL, CH_B>>),
   Rep(CH_A, NAME_SIZE - 1) \o <<CH_B>>}

\* Chunk c (from 0) of a list of entries cut in blocks of K entries.
Chunk(entries, K, c) == SubSeq(entries, c * K + 1, (c + 1) * K)

\* The root directory lists x, y, the directory "ba" and the file "bb";
\* its second block is a hole or an unreadable block. The directory "ba"
\* lists the files "a", "b" and "ab" and itself under LongName; "ab" has a
\* data block, a hole and an unreadable block.
LongName == Rep(CH_B, NAME_SIZE - 1)

DirImage(bs, second, x, y) ==
  LET K == bs \div DIR_ENTRY_SIZE
      root == <<x, y, minix_dir_entry_t(3, Pad(<<CH_B, CH_A>>)),
                minix_dir_entry_t(5, Pad(<<CH_B, CH_B>>))>>
      sub == <<minix_dir_entry_t(4, Pad(<<CH_A>>)),
               minix_dir_entry_t(2, Pad(<<CH_B>>)),
               minix_dir_entry_t(3, Pad(LongName)),
               minix_dir_entry_t(6, Pad(<<CH_A, CH_B>>))>>
      nroot == Len(root) \div K
      nsub == Len(sub) \div K
      rootzones == [i \in 1..DIRECT_ZONES |->
                      IF i = 1 THEN 40
                      ELSE IF i = 2 THEN second
                      ELSE IF i <= nroot + 1 THEN 40 + i - 2
                      ELSE 0]
      subzones == [i \in 1..DIRECT_ZONES |-> IF i <= nsub THEN 50 + i - 1 ELSE 0]
      reg == TYPE_REG + 420
      inodes ==
        << minix_inode_t(TYPE_DIR + 493, (nroot + 1) * bs, rootzones, 0, 0),
           minix_inode_t(reg, 3, <<60, 0, 0, 0, 0, 0, 0>>, 0, 0),
           minix_inode_t(TYPE_DIR + 493, nsub * bs, subzones, 0, 0),
           minix_inode_t(reg, bs, <<61, 0, 0, 0, 0, 0, 0>>, 0, 0),
           minix_inode_t(reg, 0, Rep(0, DIRECT_ZONES), 0, 0),
           minix_inode_t(reg, 2 * bs + 1, <<62, 0, BadZone, 0, 0, 0, 0>>,
                         0, 0) >>
  IN [exists |-> TRUE, size |-> 70 * bs,
      sect |-> <<>>,
      sb |-> (SUPERBLK_OFFSET :>
                minix_superblk_t(Len(inodes), 1, 1, 0, MINIX_MAGIC, bs)),
      ino |-> [o \in {InoOff(bs, n) : n \in 1..Len(inodes)} |->
                 inodes[(o - 4 * bs) \div INODE_SIZE + 1]],
      tbl |-> <<>>,
      dir |-> [o \in {(40 + c) * bs : c \in 0..(nroot - 1)}
                       \cup {(50 + c) * bs : c \in 0..(nsub - 1)} |->
                 IF o < 50 * bs THEN Chunk(root, K, o \div bs - 40)
                 ELSE Chunk(sub, K, o \div bs - 50)]]

DirBlkSizes == {64, 128}

DirImages ==
  {DirImage(bs, second, minix_dir_entry_t(xi, xn), minix_dir_entry_t(4, yn)) :
     bs \in DirBlkSizes, second \in {0, BadZone}, xi \in {0, 2, 9},
     xn \in EntryNames, yn \in EntryNames}

\* Path arguments of the tool.
DirPaths ==
  {<<SLASH>>, <<SLASH, CH_A>>, <<CH_A, CH_B>>, <<SLASH, CH_B>>,
   <<SLASH, CH_A, CH_B, CH_B>>, <<SLASH, CH_B, CH_A>>,
   <<SLASH, CH_B, CH_A, SLASH, CH_A>>,
   <<SLASH, SLASH, CH_B, CH_A, SLASH, SLASH, CH_B, SLASH>>,
   <<SLASH, CH_B, CH_B, SLASH, CH_A>>,
   <<SLASH>> \o Rep(CH_A, NAME_SIZE - 1), <<SLASH>> \o Rep(CH_A, NAME_SIZE),
   <<SLASH>> \o Rep(CH_A, NAME_SIZE + 1)}

DirArgs ==
  [p_num : {-1}, s_num : {-1}, tool : {"minls"}, path : DirPaths,
   dst : {FALSE}]

\* Invocations of the extract tool, with and without a destination path.
GetImages ==
  {DirImage(bs, second, minix_dir_entry_t(xi, Pad(<<CH_A>>)),
            minix_dir_entry_t(4, Pad(<<CH_A, CH_B>>))) :
     bs \in DirBlkSizes, second \in {0, BadZone}, xi \in {0, 2, 9}}

GetPaths ==
  {<<SLASH>>, <<SLASH, CH_A>>, <<SLASH, CH_A, CH_B>>, <<SLASH, CH_B>>,
   <<SLASH, CH_B, CH_A>>, <<SLASH, CH_B, CH_B>>,
   <<SLASH, CH_B, CH_A, SLASH, CH_A>>,
   <<SLASH, CH_B, CH_A, SLASH, CH_A, CH_B>>,
   <<SLASH, CH_B, CH_B, SLASH, CH_A>>}

GetArgs ==
  [p_num : {-1}, s_num : {-1}, tool : {"minget"}, path : GetPaths,
   dst : BOOLEAN]

\* Images whose inode 1 is a regular file holding the blocks of the root
\* directory.
RootFileImages ==
  {[i EXCEPT !.ino[InoOff(i.sb[SUPERBLK_OFFSET].blksize, 1)].mode =
               TYPE_REG + 420] : i \in GetImages}

RootFileArgs ==
  [p_num : {-1}, s_num : {-1}, tool : {"minls"},
   path : {<<SLASH>>, <<SLASH, CH_A>>, <<SLASH, CH_B, CH_A, SLASH, CH_A>>},
   dst : {FALSE}]

\* A path that names the file "ab" of the directory "ba", reached through
\* LongComponents times the entry LongName of that directory: it is longer
\* than the working copy of the resolver.
LongPath ==
  <<SLASH, CH_B, CH_A, SLASH>>
    \o [i \in 1..(NAME_SIZE * LongComponents) |->
          IF i % NAME_SIZE = 0 THEN SLASH ELSE CH_B]
    \o <<CH_A, CH_B>>

LongImages ==
  {DirImage(128, 0, minix_dir_entry_t(2, Pad(<<CH_A>>)),
            minix_dir_entry_t(4, Pad(<<CH_A, CH_B>>)))}

LongArgs ==
  [p_num : {-1}, s_num : {-1}, tool : {"minls", "minget"},
   path : {LongPath}, dst : {FALSE}]

\* Images whose superblock announces no inode: inode 1 cannot be read.
NoInodeImages ==
  {[i EXCEPT !.sb[SUPERBLK_OFFSET].ninodes = 0] : i \in GetImages}

RootArgs ==
  [p_num : {-1}, s_num : {-1}, tool : {"minls", "minget"},
   path : {<<SLASH>>}, dst : {FALSE}]

\* Invocations of both tools on partitioned images and on a missing image.
ToolPartArgs ==
  [p_num : {0, 4}, s_num : {-1, 0}, tool : {"minls", "minget"},
   path : {<<SLASH>>}, dst : {FALSE}]

----------------------------------------------------------------------------
(* Partition location and initialization (fs_util.c:15-175)                *)

read_mbr_and_check_magic(table_addr) ==
  LET off == table_addr - PARTITION_TABLE_OFFSET
      buf == SectorAt(off)
  IN [ret |-> IF ~ReadOK(off, SECTOR_SIZE) THEN -1
              ELSE IF buf.b510 # SIG_510 \/ buf.b511 # SIG_511 THEN -1
              ELSE 0,
      buf |-> buf,
      reads |-> <<Rd(off, SECTOR_SIZE)>>]

\* Variant: any partition type is accepted.
IsMinixType_any(type) == TRUE

\* The accepted partition type (fs_util.c:68).
IsMinixType(type) == type = MINIX_PART_TYPE

get_partition_start(part_num, table_addr) ==
  LET m == read_mbr_and_check_magic(table_addr)
  IN [reads |-> m.reads,
      ret |-> IF m.ret # 0 THEN 0
              ELSE IF part_num < 0 \/ part_num >= 4 THEN 0
              ELSE IF ~IsMinixType(m.buf.pt[part_num + 1].type) THEN 0
              ELSE m.buf.pt[part_num + 1].lFirst]

\* Steps 1 of init_filesystem: the base offset, or a failure.
locate_partition(p_num, s_num) ==
  IF p_num = -1 THEN [ok |-> TRUE, fs_offset |-> 0, reads |-> <<>>]
  ELSE
    LET p == get_partition_start(p_num, PARTITION_TABLE_OFFSET)
        base == p.ret * SECTOR_SIZE
    IN IF p.ret = 0 THEN [ok |-> FALSE, fs_offset |-> 0, reads |-> p.reads]
       ELSE IF s_num = -1
         THEN [ok |-> TRUE, fs_offset |-> base, reads |-> p.reads]
       ELSE
         LET s == get_partition_start(s_num, base + PARTITION_TABLE_OFFSET)
         IN IF s.ret = 0
              THEN [ok |-> FALSE, fs_offset |-> base,
                    reads |-> p.reads \o s.reads]
            ELSE [ok |-> TRUE, fs_offset |-> s.ret * SECTOR_SIZE,
                  reads |-> p.reads \o s.reads]

\* Offset of the superblock from the start of the filesystem (fs_util.c:153).
SuperblkOffset == SUPERBLK_OFFSET

\* Variant: the magic number is not checked.
IsMinixMagic_any(magic) == TRUE

\* The accepted filesystem magic (fs_util.c:160).
IsMinixMagic(magic) == magic = MINIX_MAGIC

NoCall ==
  [op |-> "none", n |-> 0, L |-> 0, ret |-> 0, zone_num |-> 0,
   reads |-> <<>>, inode |-> ZeroInode]

CpIdle ==
  [state |-> "idle", inode |-> ZeroInode, remaining_size |-> 0,
   current_logical_block |-> 0, out |-> <<>>, steps |-> <<>>, ret |-> 0]

CnIdle == [state |-> "idle", path |-> <<>>, once |-> <<>>, twice |-> <<>>]

NoToken == [found |-> FALSE, token |-> <<>>, saveptr |-> 1]

NoEntry == [inode |-> 0, name |-> <<>>]

\* The main of a tool: the point it has reached, the inode it resolved,
\* what it wrote to standard output and to standard error, the state of
\* the destination, the number of fclose of the image and the exit status
\* (-1 while the process runs).
TlIdle ==
  [at |-> "main", src_inode_num |-> 0, src_inode |-> ZeroInode,
   stdout |-> <<>>, stderr |-> <<>>, dest |-> "untouched", closes |-> 0,
   ret |-> 0, status |-> -1]

RsIdle ==
  [state |-> "idle", path |-> <<>>, path_copy |-> <<>>, tok |-> NoToken,
   curr_inode_num |-> 0, component |-> <<>>, target_inode |-> 0,
   hit |-> <<>>, entry |-> NoEntry, diag |-> FALSE, diag_path |-> <<>>,
   skipped |-> {}, ret |-> 0]

InitFilesystem ==
  /\ pc = "start"
  /\ IF ~image.exists
       THEN /\ image_fp' = "NULL"
            /\ pc' = "failed"
            /\ call' = [NoCall EXCEPT !.op = "init_filesystem", !.ret = -1]
            /\ UNCHANGED <<fs_offset, curr_sb, blks_per_zone, zone_size>>
     ELSE
       LET loc == locate_partition(argv.p_num, argv.s_num)
           sboff == loc.fs_offset + SuperblkOffset
           sbok == ReadOK(sboff, SUPERBLK_SIZE)
           sb == SbAt(sboff)
           bpz == Pow2(sb.log_zone_size)
       IN /\ image_fp' = "open"
          /\ fs_offset' = loc.fs_offset
          /\ IF ~loc.ok
               THEN /\ pc' = "failed"
                    /\ call' = [NoCall EXCEPT !.op = "init_filesystem",
                                              !.ret = -1, !.reads = loc.reads]
                    /\ UNCHANGED <<curr_sb, blks_per_zone, zone_size>>
             ELSE IF ~sbok
               THEN /\ pc' = "failed"
                    /\ call' = [NoCall EXCEPT
                                  !.op = "init_filesystem", !.ret = -1,
                                  !.reads = loc.reads
                                            \o <<Rd(sboff, SUPERBLK_SIZE)>>]
                    /\ UNCHANGED <<curr_sb, blks_per_zone, zone_size>>
             ELSE IF ~IsMinixMagic(sb.magic)
               THEN /\ pc' = "failed"
                    /\ curr_sb' = sb
                    /\ call' = [NoCall EXCEPT
                                  !.op = "init_filesystem", !.ret = -1,
                                  !.reads = loc.reads
                                            \o <<Rd(sboff, SUPERBLK_SIZE)>>]
                    /\ UNCHANGED <<blks_per_zone, zone_size>>
             ELSE /\ pc' = "ready"
                  /\ curr_sb' = sb
                  /\ blks_per_zone' = bpz
                  /\ zone_size' = MulAddU32(sb.blksize, bpz, 0)
                  /\ call' = [NoCall EXCEPT
                                !.op = "init_filesystem", !.ret = 0,
                                !.reads = loc.reads
                                          \o <<Rd(sboff, SUPERBLK_SIZE)>>]
  /\ UNCHANGED <<image, argv, cp, cn, rs, tl>>

\* A tool main, as opposed to a caller of the library.
IsTool == argv.tool \in {"minls", "minget"}

\* Variant: the handle is left open.
fclose_image_leak(fp) == fp

\* cleanup_filesystem: the handle is closed if it is open (fs_util.c:181-184).
fclose_image(fp) == IF fp = "open" THEN "NULL" ELSE fp

\* The points of the mains followed by cleanup_filesystem and return
\* (minls.c:163-226, Makefile:194-270).
AtExit ==
  \/ pc = "failed"
  \/ rs.state = "done" /\ rs.ret = 0
  \/ tl.at \in {"fail", "listed"}
  \/ tl.at = "dest" /\ cp.state = "done"

\* The value returned by main at such a point.
ExitStatus ==
  IF pc = "failed" THEN 1
  ELSE IF rs.state = "done" /\ rs.ret = 0 THEN 1
  ELSE IF tl.at = "fail" THEN 1
  ELSE IF tl.at = "listed" THEN (IF tl.ret = 0 THEN 0 ELSE 1)
  ELSE (IF cp.ret = 0 THEN 0 ELSE 1)

\* cleanup_filesystem. A tool calls it on every path after init_filesystem
\* returned, prints "Can't find" before it when resolution failed, closes
\* the destination it opened, and returns.
CleanupFilesystem ==
  /\ pc \in {"ready", "failed"}
  /\ cp.state \in {"idle", "done"}
  /\ IF IsTool THEN AtExit ELSE rs.state = "idle"
  /\ image_fp' = fclose_image(image_fp)
  /\ pc' = "done"
  /\ call' = [NoCall EXCEPT !.op = "cleanup_filesystem"]
  /\ tl' = [tl EXCEPT
              !.closes = IF image_fp' # image_fp THEN @ + 1 ELSE @,
              !.status = IF IsTool THEN ExitStatus ELSE @,
              !.stderr = IF IsTool /\ pc = "ready" /\ rs.state = "done"
                            /\ rs.ret = 0
                           THEN Append(@, [diag |-> "cant_find",
                                           path |-> rs.path])
                         ELSE @,
              !.dest = IF @ = "open" THEN "closed" ELSE @]
  /\ UNCHANGED <<image, argv, fs_offset, curr_sb, blks_per_zone, zone_size,
                 cp, cn, rs>>

----------------------------------------------------------------------------
(* Inode and block access (fs_util.c:85-303)                               *)

\* read_fs_bytes: the absolute offset of a filesystem-relative one.
AbsOff(offset_from_fs_start) == fs_offset + offset_from_fs_start

\* Variant: inode numbers taken as 0-based.
InodeIndex_zero_based(inode_num) == inode_num

\* Index of inode inode_num in the inode table (fs_util.c:204).
InodeIndex(inode_num) == inode_num - 1

\* Filesystem-relative offset of inode inode_num (fs_util.c:200-208).
InodeOffset(inode_num) ==
  (2 + curr_sb.i_blks + curr_sb.z_blks) * curr_sb.blksize
    + InodeIndex(inode_num) * INODE_SIZE

\* The range check of read_inode (fs_util.c:195).
BadInodeNum(inode_num) == inode_num = 0 \/ inode_num > curr_sb.ninodes

read_inode(inode_num) ==
  IF BadInodeNum(inode_num)
    THEN [ret |-> -1, inode |-> ZeroInode, reads |-> <<>>]
  ELSE
    LET abs == AbsOff(InodeOffset(inode_num))
    IN [ret |-> IF ReadOK(abs, INODE_SIZE) THEN 0 ELSE -1,
        inode |-> IF ReadOK(abs, INODE_SIZE) THEN InodeAt(abs) ELSE ZeroInode,
        reads |-> <<Rd(abs, INODE_SIZE)>>]

\* Variant: a table located by block size instead of zone size.
IndirOffset_blksize(zone) == zone * curr_sb.blksize

\* Filesystem-relative offset of the table held by a zone
\* (fs_util.c:238, 260, 277).
IndirOffset(zone) == zone * zone_size

\* The read of one indirect table (fs_util.c:241, 263, 280).
ReadTable(zone, ptrs_per_blk) ==
  LET abs == AbsOff(IndirOffset(zone))
  IN [ok |-> ReadOK(abs, curr_sb.blksize),
      ptrs |-> TableAt(abs, ptrs_per_blk),
      reads |-> <<Rd(abs, curr_sb.blksize)>>]

\* Single indirect branch (fs_util.c:232-247).
SingleIndirect(inode, indir_zone_i, ptrs_per_blk) ==
  IF inode.indirect = 0 THEN [zone_num |-> 0, reads |-> <<>>]
  ELSE LET t == ReadTable(inode.indirect, ptrs_per_blk)
       IN [zone_num |-> IF t.ok THEN t.ptrs[indir_zone_i + 1] ELSE 0,
           reads |-> t.reads]

\* The bound on the first-level index (fs_util.c:270).
FirstLevelValid(first_level_i, ptrs_in_single) ==
  first_level_i < ptrs_in_single

\* Variant: the second-level table is read whatever its zone number.
SecondLevelPresent_always(second_level_zone) == TRUE

\* The hole test on the first-level slot (fs_util.c:274).
SecondLevelPresent(second_level_zone) == second_level_zone # 0

\* Double indirect branch (fs_util.c:249-293).
DoubleIndirect(inode, offset_in_double, ptrs_in_single) ==
  IF inode.two_indirect = 0 THEN [zone_num |-> 0, reads |-> <<>>]
  ELSE
    LET t1 == ReadTable(inode.two_indirect, ptrs_in_single)
        first_level_i == offset_in_double \div ptrs_in_single
        second_level_i == offset_in_double % ptrs_in_single
    IN IF ~t1.ok THEN [zone_num |-> 0, reads |-> t1.reads]
       ELSE IF ~FirstLevelValid(first_level_i, ptrs_in_single)
         THEN [zone_num |-> 0, reads |-> t1.reads]
       ELSE
         LET second_level_zone == t1.ptrs[first_level_i + 1]
         IN IF ~SecondLevelPresent(second_level_zone)
              THEN [zone_num |-> 0, reads |-> t1.reads]
            ELSE
              LET t2 == ReadTable(second_level_zone, ptrs_in_single)
              IN [zone_num |-> IF t2.ok THEN t2.ptrs[second_level_i + 1]
                               ELSE 0,
                  reads |-> t1.reads \o t2.reads]

get_file_blk(inode, logical_blk) ==
  LET blks_per_zone_val == Pow2(curr_sb.log_zone_size)
      ptrs_per_blk == curr_sb.blksize \div PTR_SIZE
      logical_zone == logical_blk \div blks_per_zone_val
      blk_in_zone == logical_blk % blks_per_zone_val
      z == IF logical_zone < DIRECT_ZONES
             THEN [zone_num |-> inode.zone[logical_zone + 1], reads |-> <<>>]
           ELSE IF logical_zone < DIRECT_ZONES + ptrs_per_blk
             THEN SingleIndirect(inode, logical_zone - DIRECT_ZONES,
                                 ptrs_per_blk)
           ELSE DoubleIndirect(inode,
                               logical_zone - (DIRECT_ZONES + ptrs_per_blk),
                               ptrs_per_blk)
  IN [zone_num |-> z.zone_num,
      reads |-> z.reads,
      failed |-> \E i \in 1..Len(z.reads) : ~z.reads[i].ok,
      ret |-> IF z.zone_num = 0 THEN 0
              ELSE MulAddU32(z.zone_num, blks_per_zone_val, blk_in_zone)]

\* Logical blocks tried against every inode: the whole addressable range
\* of the largest geometry and ExtraBlks zones beyond it.
MaxBlk ==
  (DIRECT_ZONES + (curr_sb.blksize \div PTR_SIZE)
     + (curr_sb.blksize \div PTR_SIZE) * (curr_sb.blksize \div PTR_SIZE)
     + ExtraBlks) * blks_per_zone - 1

ReadInode ==
  /\ pc = "ready" /\ cp.state = "idle" /\ argv.tool = "api"
  /\ \E n \in 0..(curr_sb.ninodes + 1) :
       LET r == read_inode(n)
       IN call' = [NoCall EXCEPT !.op = "read_inode", !.n = n, !.ret = r.ret,
                                 !.reads = r.reads, !.inode = r.inode]
  /\ UNCHANGED <<image, argv, pc, image_fp, fs_offset, curr_sb, blks_per_zone,
                 zone_size, cp, cn, rs, tl>>

\* The callers read an inode and then map its blocks.
GetFileBlk ==
  /\ pc = "ready" /\ cp.state = "idle" /\ argv.tool = "api"
  /\ call.op = "read_inode" /\ call.ret = 0
  /\ \E L \in 0..MaxBlk :
       LET r == get_file_blk(call.inode, L)
       IN call' = [NoCall EXCEPT !.op = "get_file_blk", !.n = call.n, !.L = L,
                                 !.ret = r.ret, !.zone_num = r.zone_num,
                                 !.reads = r.reads, !.inode = call.inode]
  /\ UNCHANGED <<image, argv, pc, image_fp, fs_offset, curr_sb, blks_per_zone,
                 zone_size, cp, cn, rs, tl>>

----------------------------------------------------------------------------
(* copy_file_data of the extract tool (Makefile:59-144)                    *)

\* Variant: a whole block is moved even when less remains.
BytesToCopy_whole(remaining_size) == curr_sb.blksize

\* Bytes moved by one iteration (Makefile:84-87).
BytesToCopy(remaining_size) == Min(curr_sb.blksize, remaining_size)

\* Filesystem-relative offset of a data block (Makefile:110).
DataOffset(disk_block_num) == disk_block_num * curr_sb.blksize

\* The bytes written for a hole (Makefile:98-101).
HoleBytes(bytes_to_copy) == Rep(0, bytes_to_copy)

\* The bytes written for a data block read into block_buf (Makefile:129).
BlockBytes(block_buf, bytes_to_copy) == Take(block_buf, bytes_to_copy)

\* The tool copies a regular file whose inode it has read (Makefile:217-261).
CopyStart ==
  /\ pc = "ready" /\ cp.state = "idle"
  /\ argv.tool = "api" \/ tl.at = "dest"
  /\ call.op = "read_inode" /\ call.ret = 0
  /\ FileType(call.inode.mode) = TYPE_REG
  /\ cp' = [CpIdle EXCEPT !.state = "loop", !.inode = call.inode,
                          !.remaining_size = call.inode.size]
  /\ call' = [NoCall EXCEPT !.op = "copy_file_data", !.n = call.n,
                            !.inode = call.inode]
  /\ UNCHANGED <<image, argv, pc, image_fp, fs_offset, curr_sb, blks_per_zone,
                 zone_size, cn, rs, tl>>

\* One iteration of the copy loop (Makefile:78-140).
CopyStep ==
  /\ cp.state = "loop" /\ cp.remaining_size > 0
  /\ Len(cp.steps) < MaxSteps
  /\ LET m == get_file_blk(cp.inode, cp.current_logical_block)
         bytes_to_copy == BytesToCopy(cp.remaining_size)
         abs == AbsOff(DataOffset(m.ret))
         step == [blk |-> m.ret, failed |-> m.failed, n |-> bytes_to_copy,
                  rd |-> IF m.ret = 0 THEN -1 ELSE abs]
     IN IF m.ret = 0
          THEN cp' = [cp EXCEPT
                        !.out = @ \o HoleBytes(bytes_to_copy),
                        !.steps = Append(@, step),
                        !.remaining_size = @ - bytes_to_copy,
                        !.current_logical_block = @ + 1]
        ELSE IF ~ReadOK(abs, curr_sb.blksize)
          THEN cp' = [cp EXCEPT !.state = "done", !.ret = -1,
                                !.steps = Append(@, step)]
        ELSE cp' = [cp EXCEPT
                      !.out = @ \o BlockBytes(DataAt(abs, curr_sb.blksize),
                                              bytes_to_copy),
                      !.steps = Append(@, step),
                      !.remaining_size = @ - bytes_to_copy,
                      !.current_logical_block = @ + 1]
  /\ UNCHANGED <<image, argv, pc, image_fp, fs_offset, curr_sb, blks_per_zone,
                 zone_size, call, cn, rs, tl>>

\* fwrite to the sink fails (Makefile:101-105, 129-134).
CopyWriteFail ==
  /\ cp.state = "loop" /\ cp.remaining_size > 0
  /\ cp' = [cp EXCEPT !.state = "done", !.ret = -1]
  /\ UNCHANGED <<image, argv, pc, image_fp, fs_offset, curr_sb, blks_per_zone,
                 zone_size, call, cn, rs, tl>>

\* The loop ends and copy_file_data returns 0 (Makefile:78, 142-143).
CopyReturn ==
  /\ cp.state = "loop" /\ cp.remaining_size = 0
  /\ cp' = [cp EXCEPT !.state = "done", !.ret = 0]
  /\ UNCHANGED <<image, argv, pc, image_fp, fs_offset, curr_sb, blks_per_zone,
                 zone_size, call, cn, rs, tl>>

----------------------------------------------------------------------------
(* Path canonicalization (fs_util.c:312-364). A string is the sequence of  *)
(* its bytes before the terminating NUL.                                   *)

\* The byte at index i (from 1) of a NUL-terminated string.
CharAt(str, i) == IF i <= Len(str) THEN str[i] ELSE NUL

\* Variant: empty tokens between adjacent delimiters are not skipped.
SkipDelims_none(str, i) == i

\* strtok_r: first index at or after i that is not a delimiter.
RECURSIVE SkipDelims(_, _)
SkipDelims(str, i) ==
  IF i <= Len(str) /\ str[i] = SLASH THEN SkipDelims(str, i + 1) ELSE i

\* strtok_r: first index at or after i that is a delimiter or the end.
RECURSIVE TokenEnd(_, _)
TokenEnd(str, i) ==
  IF i <= Len(str) /\ str[i] # SLASH THEN TokenEnd(str, i + 1) ELSE i

\* strtok_r(str or NULL, "/", &saveptr) resuming at index saveptr.
strtok_r(str, saveptr) ==
  LET b == SkipDelims(str, saveptr)
      e == TokenEnd(str, b)
  IN IF b > Len(str)
       THEN [found |-> FALSE, token |-> <<>>, saveptr |-> b]
     ELSE [found |-> TRUE,
           token |-> SubSeq(str, b, e - 1),
           saveptr |-> IF e > Len(str) THEN e ELSE e + 1]

\* The token loop of canonicalize_path (fs_util.c:338-348).
RECURSIVE CanonLoop(_, _, _)
CanonLoop(temp_copy, tok, new_path) ==
  IF ~tok.found THEN new_path
  ELSE LET next == strtok_r(temp_copy, tok.saveptr)
       IN CanonLoop(temp_copy, next,
                    new_path \o tok.token
                             \o (IF next.found THEN <<SLASH>> ELSE <<>>))

canonicalize_path(path) ==
  IF path = <<>> THEN <<SLASH>>
  ELSE
    LET new_path == CanonLoop(path, strtok_r(path, 1), <<SLASH>>)
    IN IF new_path = <<SLASH>> THEN new_path
       ELSE IF Len(new_path) > 1 /\ new_path[Len(new_path)] = SLASH
         THEN SubSeq(new_path, 1, Len(new_path) - 1)
       ELSE new_path

----------------------------------------------------------------------------
(* Path resolution (fs_util.c:370-469)                                     *)

\* strncmp(s1, s2, n) from index i: 0 when equal over n bytes or up to a
\* common NUL.
RECURSIVE strncmp_from(_, _, _, _)
strncmp_from(s1, s2, i, n) ==
  IF i > n THEN 0
  ELSE IF CharAt(s1, i) # CharAt(s2, i) THEN CharAt(s1, i) - CharAt(s2, i)
  ELSE IF CharAt(s1, i) = NUL THEN 0
  ELSE strncmp_from(s1, s2, i + 1, n)

strncmp(s1, s2, n) == strncmp_from(s1, s2, 1, n)

\* Variant: the byte after the compared prefix is not looked at.
ExactEnd_skip(token_len, name) == TRUE

\* The entry name ends where the token ends (fs_util.c:429-431).
ExactEnd(token_len, name) ==
  ~(token_len < NAME_SIZE /\ name[token_len + 1] # NUL)

\* The tests made on one directory entry (fs_util.c:418-435).
EntryMatches(token, entry) ==
  /\ entry.inode # 0
  /\ ~(Len(token) > NAME_SIZE)
  /\ strncmp(token, entry.name, Len(token)) = 0
  /\ ExactEnd(Len(token), entry.name)

\* Logical blocks visited by the directory loop (fs_util.c:404).
DirBlocks(dir_inode) ==
  {i \in 0..dir_inode.size : i * curr_sb.blksize < dir_inode.size}

\* Entry slots visited in one block by the resolver (fs_util.c:414).
ResolveSlots == {j \in 0..curr_sb.blksize : j * DIR_ENTRY_SIZE < curr_sb.blksize}

\* The read of one directory block: it is skipped when it is a hole or
\* unreadable (fs_util.c:405-412).
ReadDirBlock(disk_blk) ==
  [ok |-> disk_blk # 0 /\ ReadOK(AbsOff(disk_blk * curr_sb.blksize),
                                 curr_sb.blksize),
   buf |-> DirAt(AbsOff(disk_blk * curr_sb.blksize))]

\* The block buffer of logical block i of a directory.
DirBlock(dir_inode, i) == ReadDirBlock(get_file_blk(dir_inode, i).ret)

\* Slot j of a block buffer holds an entry matching the token. With a block
\* size that is a multiple of 64 every visited slot lies inside the buffer.
SlotMatches(token, blk, j) ==
  /\ blk.ok
  /\ j < Len(blk.buf)
  /\ EntryMatches(token, blk.buf[j + 1])

\* Variant: the slots are visited in descending order.
Before_descending(h, g) == h[1] > g[1] \/ (h[1] = g[1] /\ h[2] >= g[2])

\* Before(h, g): slot h is visited no later than slot g.
Before(h, g) == h[1] < g[1] \/ (h[1] = g[1] /\ h[2] <= g[2])

\* The loops stop at the first match in visiting order (fs_util.c:436-439).
FirstMatch(dir_inode, hits) ==
  IF hits = {} THEN [hit |-> <<>>, entry |-> NoEntry]
  ELSE LET first == CHOOSE h \in hits : \A g \in hits : Before(h, g)
       IN [hit |-> first,
           entry |-> DirBlock(dir_inode, first[1]).buf[first[2] + 1]]

\* The scan of one directory for one token (fs_util.c:404-439).
ScanDir(dir_inode, token) ==
  FirstMatch(dir_inode,
             {h \in DirBlocks(dir_inode) \X ResolveSlots :
                SlotMatches(token, DirBlock(dir_inode, h[1]), h[2])})

\* The tool canonicalizes its path argument and starts resolving it
\* (minls.c:169-176, fs_util.c:370-387).
StartWalk(canonical_path, path_copy) ==
  IF canonical_path = <<SLASH>>
    THEN [RsIdle EXCEPT !.state = "done", !.path = canonical_path,
                        !.curr_inode_num = 1, !.ret = 1]
  ELSE [RsIdle EXCEPT !.state = "walk", !.path = canonical_path,
                      !.path_copy = path_copy, !.curr_inode_num = 1,
                      !.tok = strtok_r(path_copy, 1)]

ResolveStart ==
  /\ pc = "ready" /\ argv.tool # "api" /\ rs.state = "idle"
  /\ \E canonical_path \in {canonicalize_path(argv.path)} :
       rs' = StartWalk(canonical_path,
                       Take(Tail(canonical_path), PATH_COPY_MAX))
  /\ UNCHANGED <<image, argv, pc, image_fp, fs_offset, curr_sb, blks_per_zone,
                 zone_size, call, cp, cn, tl>>

\* The disk blocks whose read failed and was passed over before the scan
\* ended at slot hit, or at the end of the directory (fs_util.c:411-412).
UnreadBlocks(dir_inode, hit) ==
  {get_file_blk(dir_inode, i).ret :
     i \in {k \in DirBlocks(dir_inode) :
             /\ hit = <<>> \/ k < hit[1]
             /\ get_file_blk(dir_inode, k).ret # 0
             /\ ~DirBlock(dir_inode, k).ok}}

\* The end of one iteration, once the directory was scanned and the inode
\* of the match was read (fs_util.c:441-466).
AfterScan(d, scan, t, more) ==
  LET step == [rs EXCEPT !.component = rs.tok.token, !.hit = <<>>,
                         !.entry = NoEntry, !.target_inode = 0,
                         !.skipped = IF d.ret # 0 THEN @
                                     ELSE @ \cup UnreadBlocks(d.inode,
                                                              scan.hit)]
      fail == [step EXCEPT !.state = "done", !.ret = 0]
      found == [fail EXCEPT !.hit = scan.hit, !.entry = scan.entry,
                            !.target_inode = scan.entry.inode]
  IN IF d.ret # 0 THEN fail
     ELSE IF scan.entry.inode = 0 THEN fail
     ELSE IF t.ret # 0 THEN found
     ELSE IF more /\ FileType(t.inode.mode) # TYPE_DIR
       THEN [found EXCEPT !.diag = TRUE, !.diag_path = rs.path]
     ELSE [found EXCEPT !.state = "walk", !.ret = rs.ret,
                        !.curr_inode_num = scan.entry.inode,
                        !.tok = strtok_r(rs.path_copy, rs.tok.saveptr)]

\* One iteration of the component loop (fs_util.c:390-466).
ResolveComponent ==
  /\ rs.state = "walk" /\ rs.tok.found
  /\ \E d \in {read_inode(rs.curr_inode_num)} :
       \E scan \in {ScanDir(d.inode, rs.tok.token)} :
         rs' = AfterScan(d, scan, read_inode(scan.entry.inode),
                         CharAt(rs.path_copy, rs.tok.saveptr) # NUL)
  /\ UNCHANGED <<image, argv, pc, image_fp, fs_offset, curr_sb, blks_per_zone,
                 zone_size, call, cp, cn, tl>>

\* No token is left: the inode reached is returned (fs_util.c:390, 468).
ResolveReturn ==
  /\ rs.state = "walk" /\ ~rs.tok.found
  /\ rs' = [rs EXCEPT !.state = "done", !.ret = rs.curr_inode_num]
  /\ UNCHANGED <<image, argv, pc, image_fp, fs_offset, curr_sb, blks_per_zone,
                 zone_size, call, cp, cn, tl>>

----------------------------------------------------------------------------
(* The mains of the list tool (minls.c:40-227) and of the extract tool     *)
(* (Makefile:149-271), after init_filesystem succeeded and the path was    *)
(* resolved.                                                               *)

IsDirectory(mode) == FileType(mode) = TYPE_DIR

\* Variant: any file type is extracted.
IsRegular_any(mode) == TRUE

\* The type required of an extracted file (Makefile:225).
IsRegular(mode) == FileType(mode) = TYPE_REG

\* Length of the string held by the first n bytes of s.
RECURSIVE strnlen(_, _, _)
strnlen(s, i, n) ==
  IF i > n \/ CharAt(s, i) = NUL THEN i - 1 ELSE strnlen(s, i + 1, n)

\* The name printed for an entry: strncpy of 60 bytes, then a NUL
\* (minls.c:107-109).
EntryName(name) == SubSeq(name, 1, strnlen(name, 1, NAME_SIZE))

\* Index of the last '/' of a path at or before i, 0 when there is none.
RECURSIVE strrchr(_, _)
strrchr(path, i) ==
  IF i = 0 \/ path[i] = SLASH THEN i ELSE strrchr(path, i - 1)

\* The name shown for a target that is not a directory (minls.c:206-216).
Basename(path) ==
  IF path = <<SLASH>> THEN <<DOT>>
  ELSE SubSeq(path, strrchr(path, Len(path)) + 1, Len(path))

\* What a step wrote: lines on standard output, diagnostics on standard
\* error.
Join(a, b) == [out |-> a.out \o b.out, err |-> a.err \o b.err]

\* list_single_entry, given the result r of its read_inode (minls.c:40-57).
\* A line is identified by the three fields it formats.
EntryLine(r, entry_inode_num, name) ==
  IF r.ret # 0
    THEN [out |-> <<>>,
          err |-> <<[diag |-> "entry_inode", n |-> entry_inode_num]>>]
  ELSE [out |-> <<[mode |-> r.inode.mode, size |-> r.inode.size,
                   name |-> name]>>,
        err |-> <<>>]

list_single_entry(entry_inode_num, name) ==
  EntryLine(read_inode(entry_inode_num), entry_inode_num, name)

\* Slots of a directory block visited by the list tool (minls.c:96-97).
ListSlots == {j \in 0..curr_sb.blksize : j < curr_sb.blksize \div DIR_ENTRY_SIZE}

\* The entry loop of one block from slot j on (minls.c:97-112).
RECURSIVE ListEntriesFrom(_, _, _)
ListEntriesFrom(buf, j, acc) ==
  IF j \notin ListSlots \/ j >= Len(buf) THEN acc
  ELSE IF buf[j + 1].inode = 0 THEN ListEntriesFrom(buf, j + 1, acc)
  ELSE ListEntriesFrom(buf, j + 1,
                       Join(acc, list_single_entry(buf[j + 1].inode,
                                                   EntryName(buf[j + 1].name))))

\* One block of the directory, given its disk block number (minls.c:82-112).
ListBlock(disk_block, acc) ==
  IF disk_block = 0 THEN acc
  ELSE IF ~ReadOK(AbsOff(disk_block * curr_sb.blksize), curr_sb.blksize)
    THEN Join(acc, [out |-> <<>>,
                    err |-> <<[diag |-> "dir_block", n |-> disk_block]>>])
  ELSE ListEntriesFrom(DirAt(AbsOff(disk_block * curr_sb.blksize)), 0, acc)

\* The block loop from logical block i on (minls.c:80-113).
RECURSIVE ListBlocksFrom(_, _, _)
ListBlocksFrom(dir_inode, i, acc) ==
  IF ~(i * curr_sb.blksize < dir_inode.size) THEN acc
  ELSE ListBlocksFrom(dir_inode, i + 1,
                      ListBlock(get_file_blk(dir_inode, i).ret, acc))

\* list_directory_contents, given the result r of its read_inode
\* (minls.c:63-116).
ListDirectory(r, dir_inode_num, dir_path) ==
  IF r.ret # 0
    THEN [ret |-> -1, out |-> <<>>,
          err |-> <<[diag |-> "dir_inode", n |-> dir_inode_num]>>]
  ELSE IF ~IsDirectory(r.inode.mode)
    THEN [ret |-> -1, out |-> <<[header |-> dir_path]>>,
          err |-> <<[diag |-> "not_dir", path |-> dir_path]>>]
  ELSE [ret |-> 0] @@
       ListBlocksFrom(r.inode, 0,
                      [out |-> <<[header |-> dir_path]>>, err |-> <<>>])

list_directory_contents(dir_inode_num, dir_path) ==
  ListDirectory(read_inode(dir_inode_num), dir_inode_num, dir_path)

\* Both mains read the inode the path resolved to (minls.c:185-191,
\* Makefile:216-222).
MainReadInode ==
  /\ pc = "ready" /\ IsTool /\ tl.at = "main"
  /\ rs.state = "done" /\ rs.ret # 0
  /\ \E r \in {read_inode(rs.ret)} :
       /\ call' = [NoCall EXCEPT !.op = "read_inode", !.n = rs.ret,
                                 !.ret = r.ret, !.reads = r.reads,
                                 !.inode = r.inode]
       /\ tl' = IF r.ret # 0
                  THEN [tl EXCEPT !.at = "fail", !.src_inode_num = rs.ret,
                                  !.stderr = Append(@, [diag |-> "src_inode",
                                                        n |-> rs.ret])]
                ELSE [tl EXCEPT !.at = "inode", !.src_inode_num = rs.ret,
                                !.src_inode = r.inode]
  /\ UNCHANGED <<image, argv, pc, image_fp, fs_offset, curr_sb, blks_per_zone,
                 zone_size, cp, cn, rs>>

\* What the list tool prints for its target (minls.c:198-220).
ListOutput ==
  IF IsDirectory(tl.src_inode.mode)
    THEN list_directory_contents(tl.src_inode_num, rs.path)
  ELSE [ret |-> 0] @@ list_single_entry(tl.src_inode_num, Basename(rs.path))

ListTarget ==
  /\ pc = "ready" /\ argv.tool = "minls" /\ tl.at = "inode"
  /\ \E l \in {ListOutput} :
       tl' = [tl EXCEPT !.at = "listed", !.ret = l.ret,
                        !.stdout = @ \o l.out, !.stderr = @ \o l.err]
  /\ UNCHANGED <<image, argv, pc, image_fp, fs_offset, curr_sb, blks_per_zone,
                 zone_size, call, cp, cn, rs>>

\* The extract tool checks the file type and opens its destination, which
\* may fail when a path was given (Makefile:225-258).
OpenDestination ==
  /\ pc = "ready" /\ argv.tool = "minget" /\ tl.at = "inode"
  /\ \E opened \in (IF argv.dst THEN BOOLEAN ELSE {TRUE}) :
       tl' = IF ~IsRegular(tl.src_inode.mode)
               THEN [tl EXCEPT !.at = "fail",
                               !.stderr = Append(@, [diag |-> "not_regular",
                                                     path |-> rs.path])]
             ELSE IF ~opened
               THEN [tl EXCEPT !.at = "fail",
                               !.stderr = Append(@, [diag |-> "open_dest"])]
             ELSE [tl EXCEPT !.at = "dest",
                             !.dest = IF argv.dst THEN "open" ELSE "stdout"]
  /\ UNCHANGED <<image, argv, pc, image_fp, fs_offset, curr_sb, blks_per_zone,
                 zone_size, call, cp, cn, rs>>

----------------------------------------------------------------------------
(* The session: one invocation against one image                           *)

Scenarios ==
  {[image |-> i, argv |-> a] : i \in PartImages, a \in PartArgs}
  \cup {[image |-> i, argv |-> NoArgs] : i \in MapImages \cup {NoImage}}
  \cup {[image |-> i, argv |-> a] : i \in DirImages, a \in DirArgs}
  \cup {[image |-> i, argv |-> a] : i \in GetImages, a \in GetArgs}
  \cup {[image |-> i, argv |-> a] :
          i \in PartImages \cup {NoImage}, a \in ToolPartArgs}
  \cup {[image |-> i, argv |-> a] : i \in NoInodeImages, a \in RootArgs}
  \cup {[image |-> i, argv |-> a] : i \in RootFileImages, a \in RootFileArgs}
  \cup {[image |-> i, argv |-> a] : i \in LongImages, a \in LongArgs}

Init ==
  /\ \E s \in Scenarios : image = s.image /\ argv = s.argv
  /\ pc = "start"
  /\ image_fp = "NULL"
  /\ fs_offset = 0
  /\ curr_sb = ZeroSb
  /\ blks_per_zone = 0
  /\ zone_size = 0
  /\ call = NoCall
  /\ cp = CpIdle
  /\ cn = CnIdle
  /\ rs = RsIdle
  /\ tl = TlIdle

Next ==
  \/ InitFilesystem
  \/ ReadInode
  \/ GetFileBlk
  \/ CopyStart
  \/ CopyStep
  \/ CopyWriteFail
  \/ CopyReturn
  \/ ResolveStart
  \/ ResolveComponent
  \/ ResolveReturn
  \/ MainReadInode
  \/ ListTarget
  \/ OpenDestination
  \/ CleanupFilesystem

Spec == Init /\ [][Next]_vars

----------------------------------------------------------------------------
(* Properties of the block mapper                                          *)

PtrsPerBlk == curr_sb.blksize \div PTR_SIZE

\* The read of the table of a zone, as the format lays it out.
ZoneTableRead(zone) == Rd(fs_offset + zone * zone_size, curr_sb.blksize)

\* Slot i (from 0) of the table of a zone, as stored in the image.
ZoneTableSlot(zone, i) ==
  TableAt(fs_offset + zone * zone_size, PtrsPerBlk)[i + 1]

ZoneReadable(zone) == zone # 0 /\ ZoneTableRead(zone).ok

MappedZone == call.L \div blks_per_zone

\* C1: the mapper takes the zone number from the direct slot, from slot
\* z-7 of the single indirect table, or from slot (z-7-P) % P of the table
\* named by slot (z-7-P) / P of the double indirect table; beyond
\* 7+P+P*P zones it answers Hole; every table is one blksize-byte read at
\* zone * zone_size.
C1_MapperFollowsZoneTable ==
  call.op = "get_file_blk" =>
    LET z == MappedZone
        P == PtrsPerBlk
        ino == call.inode
        d == z - DIRECT_ZONES - P
    IN /\ z < DIRECT_ZONES =>
            call.zone_num = ino.zone[z + 1] /\ call.reads = <<>>
       /\ (DIRECT_ZONES <= z /\ z < DIRECT_ZONES + P /\ ino.indirect # 0) =>
            /\ call.reads = <<ZoneTableRead(ino.indirect)>>
            /\ ZoneReadable(ino.indirect) =>
                 call.zone_num = ZoneTableSlot(ino.indirect, z - DIRECT_ZONES)
       /\ (DIRECT_ZONES + P <= z /\ z < DIRECT_ZONES + P + P * P
             /\ ZoneReadable(ino.two_indirect)) =>
            LET first == ZoneTableSlot(ino.two_indirect, d \div P)
            IN /\ call.reads[1] = ZoneTableRead(ino.two_indirect)
               /\ first # 0 =>
                    /\ call.reads = <<ZoneTableRead(ino.two_indirect),
                                      ZoneTableRead(first)>>
                    /\ ZoneReadable(first) =>
                         call.zone_num = ZoneTableSlot(first, d % P)
       /\ z >= DIRECT_ZONES + P + P * P => call.ret = 0
       /\ \A i \in 1..Len(call.reads) :
            /\ call.reads[i].n = curr_sb.blksize
            /\ (call.reads[i].off - fs_offset) % zone_size = 0

\* A double indirect lookup that found a data zone, two blocks per zone.
C1_Witness ==
  /\ call.op = "get_file_blk"
  /\ blks_per_zone = 2 /\ PtrsPerBlk = 2
  /\ MappedZone >= DIRECT_ZONES + PtrsPerBlk
  /\ Len(call.reads) = 2
  /\ call.zone_num # 0

\* C2: a zone number 0 met at any dereference gives Hole, and no read is
\* issued after the zero is met.
C2_ZeroIsHoleWithoutFurtherReads ==
  call.op = "get_file_blk" =>
    LET z == MappedZone
        P == PtrsPerBlk
        ino == call.inode
        d == z - DIRECT_ZONES - P
        single == DIRECT_ZONES <= z /\ z < DIRECT_ZONES + P
        double == DIRECT_ZONES + P <= z /\ z < DIRECT_ZONES + P + P * P
    IN /\ (z < DIRECT_ZONES /\ ino.zone[z + 1] = 0) =>
            call.ret = 0 /\ call.reads = <<>>
       /\ (single /\ ino.indirect = 0) => call.ret = 0 /\ call.reads = <<>>
       /\ (single /\ ZoneReadable(ino.indirect)
             /\ ZoneTableSlot(ino.indirect, z - DIRECT_ZONES) = 0) =>
            call.ret = 0 /\ Len(call.reads) = 1
       /\ (z >= DIRECT_ZONES + P /\ ino.two_indirect = 0) =>
            call.ret = 0 /\ call.reads = <<>>
       /\ (double /\ ZoneReadable(ino.two_indirect)
             /\ ZoneTableSlot(ino.two_indirect, d \div P) = 0) =>
            call.ret = 0 /\ Len(call.reads) = 1
       /\ (double /\ ZoneReadable(ino.two_indirect)
             /\ ZoneReadable(ZoneTableSlot(ino.two_indirect, d \div P))
             /\ ZoneTableSlot(ZoneTableSlot(ino.two_indirect, d \div P),
                              d % P) = 0) =>
            call.ret = 0 /\ Len(call.reads) = 2

\* A zero first-level slot of the double indirect table was met.
C2_Witness ==
  /\ call.op = "get_file_blk"
  /\ MappedZone >= DIRECT_ZONES + PtrsPerBlk
  /\ MappedZone < DIRECT_ZONES + PtrsPerBlk + PtrsPerBlk * PtrsPerBlk
  /\ ZoneReadable(call.inode.two_indirect)
  /\ ZoneTableSlot(call.inode.two_indirect,
                   (MappedZone - DIRECT_ZONES - PtrsPerBlk)
                     \div PtrsPerBlk) = 0
  /\ call.ret = 0

\* C3: a failed read of an indirect table is a hard error, distinct from
\* Hole, and the copy never emits zero-fill for such a block.
C3_TableReadFailureIsNotHole ==
  /\ (call.op = "get_file_blk"
        /\ \E i \in 1..Len(call.reads) : ~call.reads[i].ok) => call.ret # 0
  /\ \A i \in 1..Len(cp.steps) :
       cp.steps[i].failed => Len(cp.out) <= (i - 1) * curr_sb.blksize

----------------------------------------------------------------------------
(* Properties of the copy                                                  *)

\* C4: a successful copy writes exactly inode.size bytes, min(blksize,
\* remaining) at each step and never more than inode.size in all; byte k is
\* byte k % blksize of the disk block mapped for logical block k / blksize,
\* or zero when that block is a Hole, for which no data block is read.
C4_CopyWritesSizeBytes ==
  cp.state # "idle" =>
    LET bs == curr_sb.blksize
        size == cp.inode.size
    IN /\ Len(cp.out) <= size
       /\ cp.state = "loop" =>
            /\ Len(cp.out) = Min(size, cp.current_logical_block * bs)
            /\ Len(cp.steps) = cp.current_logical_block
       /\ \A i \in 1..Len(cp.steps) :
            /\ cp.steps[i].n = Min(bs, size - (i - 1) * bs)
            /\ cp.steps[i].blk = get_file_blk(cp.inode, i - 1).ret
            /\ cp.steps[i].rd = IF cp.steps[i].blk = 0 THEN -1
                                ELSE fs_offset + cp.steps[i].blk * bs
       /\ (cp.state = "done" /\ cp.ret = 0) =>
            /\ Len(cp.out) = size
            /\ \A k \in 0..(size - 1) :
                 LET st == cp.steps[k \div bs + 1]
                 IN cp.out[k + 1] =
                      IF st.blk = 0 THEN 0
                      ELSE DiskByte(fs_offset + st.blk * bs + (k % bs))

\* A finished copy of a file with a hole, data blocks and a short last block.
C4_Witness ==
  /\ cp.state = "done" /\ cp.ret = 0
  /\ cp.inode.size % curr_sb.blksize # 0
  /\ \E i \in 1..Len(cp.steps) : cp.steps[i].blk = 0
  /\ \E i \in 1..Len(cp.steps) : cp.steps[i].blk # 0
  /\ Len(cp.out) = cp.inode.size

----------------------------------------------------------------------------
(* Properties of initialization                                            *)

InitDone == pc # "start" /\ image.exists

Sig(sec) == <<sec.b510, sec.b511>>

\* A table that resolves index idx: readable, signed, idx in 0..3, type 0x81.
TableValid(off, idx) ==
  /\ ReadOK(off, SECTOR_SIZE)
  /\ Sig(SectorAt(off)) = <<85, 170>>
  /\ idx \in 0..3
  /\ SectorAt(off).pt[idx + 1].type = 129

EntryLba(off, idx) == SectorAt(off).pt[idx + 1].lFirst

\* Initialization went on to the superblock of the filesystem at base.
LocatedAt(base) ==
  /\ fs_offset = base
  /\ Len(call.reads) > 0
  /\ call.reads[Len(call.reads)].off = base + 1024
  /\ call.reads[Len(call.reads)].n = SUPERBLK_SIZE

\* C5: without a primary fs_base is 0; with a valid primary fs_base is
\* lFirst * 512 for every lFirst, 0 included; with a valid sub-partition the
\* table is read at the primary's base and fs_base is sub.lFirst * 512.
C5_PartitionBase ==
  (InitDone /\ call.op = "init_filesystem") =>
    /\ argv.p_num = -1 => LocatedAt(0)
    /\ (argv.p_num # -1 /\ TableValid(0, argv.p_num) /\ argv.s_num = -1) =>
         LocatedAt(EntryLba(0, argv.p_num) * 512)
    /\ (argv.p_num # -1 /\ TableValid(0, argv.p_num) /\ argv.s_num # -1) =>
         LET base == EntryLba(0, argv.p_num) * 512
         IN /\ Len(call.reads) >= 2
            /\ call.reads[2].off = base /\ call.reads[2].n = SECTOR_SIZE
            /\ TableValid(base, argv.s_num) =>
                 LocatedAt(EntryLba(base, argv.s_num) * 512)

\* C6: resolution succeeds only through tables that are signed 0x55 0xAA,
\* with an index in 0..3 and an entry of type 0x81; otherwise initialization
\* fails and never reads a superblock as if the image were unpartitioned.
C6_PartitionValidated ==
  (InitDone /\ call.op = "init_filesystem" /\ argv.p_num # -1) =>
    LET primary == TableValid(0, argv.p_num)
        base == EntryLba(0, argv.p_num) * 512
        resolved == /\ primary
                    /\ argv.s_num # -1 => TableValid(base, argv.s_num)
    IN /\ pc = "ready" => resolved
       /\ ~resolved =>
            /\ pc = "failed" /\ call.ret = -1
            /\ \A i \in 1..Len(call.reads) : call.reads[i].n = SECTOR_SIZE
            /\ curr_sb = ZeroSb

\* A signed table whose requested entry is not of type 0x81.
C6_Witness ==
  /\ InitDone /\ call.op = "init_filesystem"
  /\ argv.p_num \in 0..3
  /\ Sig(SectorAt(0)) = <<85, 170>>
  /\ SectorAt(0).pt[argv.p_num + 1].type # 129
  /\ pc = "failed"

Geometry == <<fs_offset, curr_sb, blks_per_zone, zone_size>>

\* C7: initialization reads the superblock at fs_base + 1024 and succeeds
\* only if its magic is 0x4D5A; then blks_per_zone = 1 << log_zone_size and
\* zone_size = blksize * blks_per_zone, and no later operation changes
\* them, fs_base or the superblock.
C7_GeometryFixedAfterInit ==
  /\ [](pc = "ready" =>
          /\ curr_sb = SbAt(fs_offset + 1024)
          /\ curr_sb.magic = 19802
          /\ blks_per_zone = Pow2(curr_sb.log_zone_size)
          /\ zone_size = curr_sb.blksize * blks_per_zone)
  /\ []((pc = "ready" /\ call.op = "init_filesystem") =>
          /\ call.reads[Len(call.reads)].off = fs_offset + 1024
          /\ call.reads[Len(call.reads)].ok)
  /\ [][pc = "ready" => Geometry' = Geometry]_vars

\* A block was mapped in a session whose zones hold two blocks.
C7_Witness ==
  /\ pc = "ready" /\ call.op = "get_file_blk"
  /\ blks_per_zone = 2 /\ zone_size = 2 * curr_sb.blksize

\* C8: read_inode(n) fails without a read when n = 0 or n > ninodes; for
\* n in 1..ninodes it reads exactly 64 bytes at the filesystem-relative
\* offset (2 + i_blks + z_blks) * blksize + (n - 1) * 64.
C8_ReadInodeOffset ==
  call.op = "read_inode" =>
    /\ (call.n = 0 \/ call.n > curr_sb.ninodes) =>
         call.ret = -1 /\ call.reads = <<>>
    /\ (1 <= call.n /\ call.n <= curr_sb.ninodes) =>
         /\ Len(call.reads) = 1
         /\ call.reads[1].n = 64
         /\ call.reads[1].off =
              fs_offset + (2 + curr_sb.i_blks + curr_sb.z_blks)
                            * curr_sb.blksize + (call.n - 1) * 64
         /\ call.ret = 0 => call.inode = InodeAt(call.reads[1].off)

\* The last inode of a partitioned image was read.
C8_Witness ==
  /\ call.op = "read_inode" /\ call.ret = 0
  /\ call.n = curr_sb.ninodes /\ call.n > 1
  /\ fs_offset > 0

----------------------------------------------------------------------------
(* Canonicalization applied to every short path, and again to its result   *)

PathChars == {SLASH, CH_A, CH_B}

Paths == UNION {[1..n -> PathChars] : n \in 0..MaxPathLen}

IdleSession ==
  /\ image = NoImage
  /\ argv = NoArgs
  /\ pc = "start"
  /\ image_fp = "NULL"
  /\ fs_offset = 0
  /\ curr_sb = ZeroSb
  /\ blks_per_zone = 0
  /\ zone_size = 0
  /\ call = NoCall
  /\ cp = CpIdle
  /\ tl = TlIdle

InitCanon ==
  /\ IdleSession
  /\ rs = RsIdle
  /\ \E p \in Paths : cn = [CnIdle EXCEPT !.state = "start", !.path = p]

Canonicalize ==
  /\ cn.state = "start"
  /\ cn' = [cn EXCEPT !.state = "once", !.once = canonicalize_path(cn.path)]
  /\ UNCHANGED <<image, argv, pc, image_fp, fs_offset, curr_sb, blks_per_zone,
                 zone_size, call, cp, rs, tl>>

CanonicalizeAgain ==
  /\ cn.state = "once"
  /\ cn' = [cn EXCEPT !.state = "twice", !.twice = canonicalize_path(cn.once)]
  /\ UNCHANGED <<image, argv, pc, image_fp, fs_offset, curr_sb, blks_per_zone,
                 zone_size, call, cp, rs, tl>>

NextCanon == Canonicalize \/ CanonicalizeAgain

SpecCanon == InitCanon /\ [][NextCanon]_vars

\* C9: canonicalization is idempotent; its result starts with '/', has no
\* two adjacent '/' and no trailing '/' unless it is "/"; the empty path and
\* paths of '/' only give "/", and "///a//b/" gives "/a/b".
C9_CanonIdempotentAndNormal ==
  /\ cn.state \in {"once", "twice"} =>
       /\ Len(cn.once) >= 1 /\ cn.once[1] = SLASH
       /\ \A i \in 1..(Len(cn.once) - 1) :
            ~(cn.once[i] = SLASH /\ cn.once[i + 1] = SLASH)
       /\ Len(cn.once) > 1 => cn.once[Len(cn.once)] # SLASH
       /\ (\A i \in 1..Len(cn.path) : cn.path[i] = SLASH) =>
            cn.once = <<SLASH>>
       /\ cn.path = <<SLASH, SLASH, SLASH, CH_A, SLASH, SLASH, CH_B, SLASH>>
            => cn.once = <<SLASH, CH_A, SLASH, CH_B>>
  /\ cn.state = "twice" => cn.twice = cn.once

\* "///a//b/" was canonicalized twice.
C9_Witness ==
  /\ cn.state = "twice"
  /\ cn.path = <<SLASH, SLASH, SLASH, CH_A, SLASH, SLASH, CH_B, SLASH>>
  /\ cn.twice = <<SLASH, CH_A, SLASH, CH_B>>

----------------------------------------------------------------------------
(* Properties of name matching                                             *)

\* Index of the first NUL of a name field, or its length plus one.
RECURSIVE FirstNul(_, _)
FirstNul(name, i) ==
  IF i > Len(name) \/ name[i] = NUL THEN i ELSE FirstNul(name, i + 1)

\* The name of an entry: the bytes before the first NUL, or all 60.
NameBytes(name) == SubSeq(name, 1, FirstNul(name, 1) - 1)

\* C10: a component matches an entry only if the entry's inode is nonzero
\* and its name (the bytes before the first NUL of the 60, or all 60)
\* equals the component in length and bytes; a strict prefix either way and
\* a component longer than 60 bytes never match.
C10_ExactNameMatch ==
  (rs.state \in {"walk", "done"} /\ rs.target_inode # 0) =>
    /\ rs.entry.inode # 0
    /\ rs.entry.inode = rs.target_inode
    /\ Len(rs.component) <= 60
    /\ Len(NameBytes(rs.entry.name)) = Len(rs.component)
    /\ NameBytes(rs.entry.name) = rs.component
    /\ rs.hit # <<>>

\* The query "a" against a directory that holds "ab" and no "a": not found.
C10_Witness ==
  /\ rs.state = "done" /\ rs.ret = 0
  /\ rs.path = <<SLASH, CH_A>>
  /\ rs.component = <<CH_A>>
  /\ rs.target_inode = 0
  /\ \E o \in DOMAIN image.dir :
       /\ image.dir[o][1].inode # 0
       /\ NameBytes(image.dir[o][1].name) = <<CH_A, CH_B>>

----------------------------------------------------------------------------
(* Superblocks of any geometry. init_filesystem accepts every superblock   *)
(* that carries the magic number; these images have block sizes of 0, 64   *)
(* and 100 bytes, one or four blocks per zone, and an inode whose zone     *)
(* numbers need 31 bits.                                                   *)

WideZone == 1073741824

GeomImage(bs, lzs) ==
  LET inodes ==
        << minix_inode_t(TYPE_REG + 420, 0,
                         <<WideZone, WideZone + 1, 5, 0, 0, 0, 0>>, 0, 0),
           minix_inode_t(TYPE_REG + 420, 130, <<5, 0, 6, 0, 0, 0, 0>>, 0, 0),
           minix_inode_t(TYPE_DIR + 493, 130, <<7, 0, 0, 0, 0, 0, 0>>, 0, 0) >>
  IN [exists |-> TRUE, size |-> 8192,
      sect |-> <<>>,
      sb |-> (SUPERBLK_OFFSET :>
                minix_superblk_t(Len(inodes), 1, 1, lzs, MINIX_MAGIC, bs)),
      ino |-> [o \in {InoOff(bs, n) : n \in 1..Len(inodes)} |->
                 inodes[(o - 4 * bs) \div INODE_SIZE + 1]],
      tbl |-> <<>>, dir |-> <<>>]

GeomBlkSizes == {0, 64, 100}

GeomImages == {GeomImage(bs, lzs) : bs \in GeomBlkSizes, lzs \in {0, 2}}

\* The test of the directory-block loops, in 32-bit unsigned arithmetic
\* (fs_util.c:404, minls.c:80).
DirLoopCond(i, size) == MulAddU32(i, curr_sb.blksize, 0) < size

\* The control of a directory-block loop over a directory inode that was
\* read: one more iteration, whatever its body does with the block.
DirLoopStep ==
  /\ pc = "ready" /\ cp.state = "idle" /\ argv.tool = "api"
  /\ call.op \in {"read_inode", "dir_loop"} /\ call.ret = 0
  /\ IsDirectory(call.inode.mode)
  /\ DirLoopCond(call.L, call.inode.size)
  /\ call.L < MaxSteps
  /\ call' = [call EXCEPT !.op = "dir_loop", !.L = @ + 1]
  /\ UNCHANGED <<image, argv, pc, image_fp, fs_offset, curr_sb, blks_per_zone,
                 zone_size, cp, cn, rs, tl>>

InitGeom ==
  /\ image \in GeomImages
  /\ argv = NoArgs
  /\ pc = "start"
  /\ image_fp = "NULL"
  /\ fs_offset = 0
  /\ curr_sb = ZeroSb
  /\ blks_per_zone = 0
  /\ zone_size = 0
  /\ call = NoCall
  /\ cp = CpIdle
  /\ cn = CnIdle
  /\ rs = RsIdle
  /\ tl = TlIdle

NextGeom ==
  \/ InitFilesystem
  \/ ReadInode
  \/ GetFileBlk
  \/ DirLoopStep
  \/ CopyStart
  \/ CopyStep
  \/ CopyWriteFail
  \/ CopyReturn
  \/ CleanupFilesystem

SpecGeom == InitGeom /\ [][NextGeom]_vars

----------------------------------------------------------------------------
(* Properties of the tools                                                 *)

\* The inode the resolver is about to scan for its next component.
CurrentInode == read_inode(rs.curr_inode_num)

\* C11: while resolving, a component is never looked up in an inode whose
\* file-type bits differ from directory: the step that meets such a current
\* inode ends the resolution with no inode and with the diagnostic that
\* names the full path; in particular /a/b with a regular /a fails so.
C11_NotADirectory ==
  /\ [](rs.diag => rs.state = "done" /\ rs.ret = 0 /\ rs.diag_path = rs.path)
  /\ [][(/\ rs.state = "walk" /\ rs.tok.found /\ rs' # rs
         /\ CurrentInode.ret = 0
         /\ ~IsDirectory(CurrentInode.inode.mode))
          => (rs'.state = "done" /\ rs'.ret = 0 /\ rs'.diag)]_vars
  /\ [](rs.state = "walk" /\ rs.tok.found /\ CurrentInode.ret = 0
          => IsDirectory(CurrentInode.inode.mode))

\* Some read of an indirect table failed while the file was copied.
CopyTableReadFailed == \E k \in 1..Len(cp.steps) : cp.steps[k].failed

\* C12: an invocation of a tool that met a failure (a diagnostic on standard
\* error, a directory block or an indirect table that could not be read,
\* a failed traversal) does not exit with status 0.
C12_FailuresAreFatal ==
  (IsTool /\ tl.status = 0) =>
    /\ tl.stderr = <<>>
    /\ rs.skipped = {}
    /\ ~rs.diag
    /\ ~CopyTableReadFailed

\* The process of a tool has returned from main.
Exited == IsTool /\ tl.status # -1

\* C13: a tool that opened the image has closed it exactly once when it
\* returns, whatever the path it took; the handle is never closed twice,
\* and it is open in every state in which the image can still be read.
C13_ImageClosedOnce ==
  /\ Exited => /\ image_fp = "NULL"
               /\ tl.closes = IF image.exists THEN 1 ELSE 0
  /\ tl.closes <= 1
  /\ (IsTool /\ pc = "ready") => image_fp = "open" /\ tl.closes = 0
  /\ (IsTool /\ tl.closes > 0) => pc = "done"

\* The extract tool returned 1 after a data block could not be read, its
\* destination file open.
C13_Witness ==
  /\ Exited /\ argv.tool = "minget" /\ tl.status = 1
  /\ cp.state = "done" /\ cp.ret = -1 /\ Len(cp.out) > 0
  /\ tl.dest = "closed"
  /\ tl.closes = 1

\* The path was resolved to an inode.
Resolved == rs.state = "done" /\ rs.ret # 0

\* C14: the list tool has written nothing to standard output unless the
\* path was resolved; the extract tool has not opened its destination nor
\* written to its sink unless initialization and resolution succeeded, the
\* inode was read and its file-type bits are those of a regular file.
C14_NoPartialResults ==
  /\ (argv.tool = "minls" /\ tl.stdout # <<>>) =>
       /\ Resolved
       /\ tl.src_inode_num = rs.ret
       /\ read_inode(rs.ret).ret = 0
  /\ (argv.tool = "minget"
        /\ (tl.dest # "untouched" \/ cp.state # "idle" \/ cp.out # <<>>)) =>
       /\ Resolved
       /\ curr_sb.magic = MINIX_MAGIC
       /\ tl.src_inode_num = rs.ret
       /\ read_inode(rs.ret).ret = 0
       /\ tl.src_inode = read_inode(rs.ret).inode
       /\ cp.state # "idle" => cp.inode = tl.src_inode
       /\ FileType(tl.src_inode.mode) = TYPE_REG

\* The extract tool was given a destination and a path that names a
\* directory: it returned 1 and left the destination alone.
C14_Witness ==
  /\ Exited /\ argv.tool = "minget" /\ argv.dst /\ tl.status = 1
  /\ Resolved /\ IsDirectory(tl.src_inode.mode)
  /\ tl.dest = "untouched" /\ cp.state = "idle"

----------------------------------------------------------------------------
(* Properties of the directory walk. The slots of a directory are numbered *)
(* in on-disk order: slot n is slot n % K of logical block n \div K, with  *)
(* K entries per block.                                                    *)

EntriesPerBlock == curr_sb.blksize \div DIR_ENTRY_SIZE

\* Number of slots of a directory of the given size.
NSlots(dir_inode) ==
  ((dir_inode.size + curr_sb.blksize - 1) \div curr_sb.blksize)
    * EntriesPerBlock

\* The entry in slot n of a directory; an entry with inode 0 when the block
\* is a hole or cannot be read.
SlotEntry(dir_inode, n) ==
  LET blk == get_file_blk(dir_inode, n \div EntriesPerBlock).ret
      off == fs_offset + blk * curr_sb.blksize
  IN IF blk = 0 \/ ~ReadOK(off, curr_sb.blksize) THEN NoEntry
     ELSE image.dir[off][(n % EntriesPerBlock) + 1]

\* The slots of a directory that hold a live entry named c, and the slots
\* that hold a live entry whose inode can be read.
SlotsNamed(dir_inode, c) ==
  {n \in 0..(NSlots(dir_inode) - 1) :
     /\ SlotEntry(dir_inode, n).inode # 0
     /\ NameBytes(SlotEntry(dir_inode, n).name) = c}

SlotsListed(dir_inode) ==
  {n \in 0..(NSlots(dir_inode) - 1) :
     /\ SlotEntry(dir_inode, n).inode # 0
     /\ read_inode(SlotEntry(dir_inode, n).inode).ret = 0}

MinOf(S) == CHOOSE n \in S : \A m \in S : n <= m

\* C16: entries are visited in on-disk order, entries with inode 0 and
\* blocks that are holes being passed over: the resolver takes the first
\* slot in that order whose live entry carries the component (and fails
\* when there is none), and the list tool prints the live entries in that
\* order.
C16_OnDiskOrderFirstMatch ==
  /\ [][(/\ rs.state = "walk" /\ rs.tok.found /\ rs' # rs
         /\ CurrentInode.ret = 0)
          => LET named == SlotsNamed(CurrentInode.inode, rs.tok.token)
             IN IF named = {}
                  THEN rs'.hit = <<>> /\ rs'.state = "done" /\ rs'.ret = 0
                ELSE /\ rs'.hit = <<MinOf(named) \div EntriesPerBlock,
                                    MinOf(named) % EntriesPerBlock>>
                     /\ rs'.target_inode =
                          SlotEntry(CurrentInode.inode, MinOf(named)).inode
                     /\ rs'.ret \in {0, rs'.target_inode}]_vars
  /\ [](tl.at = "listed" /\ IsDirectory(tl.src_inode.mode) =>
          LET listed == SlotsListed(tl.src_inode)
          IN /\ Len(tl.stdout) = 1 + Cardinality(listed)
             /\ \A n \in listed :
                  LET line == tl.stdout[1 + Cardinality({m \in listed :
                                                          m <= n})]
                      e == SlotEntry(tl.src_inode, n)
                  IN /\ line.name = NameBytes(e.name)
                     /\ line.size = read_inode(e.inode).inode.size)

\* "/a" was resolved in a root directory with two live entries named "a",
\* in different blocks: the inode of the first was returned.
C16_Witness ==
  /\ Resolved /\ rs.path = <<SLASH, CH_A>> /\ rs.hit = <<0, 0>>
  /\ curr_sb.blksize = DIR_ENTRY_SIZE
  /\ Cardinality(SlotsNamed(read_inode(1).inode, <<CH_A>>)) = 2
  /\ rs.ret = 2

\* The last component of a path.
LastComponent(path) ==
  SubSeq(path, strrchr(path, Len(path)) + 1, Len(path))

\* C20: the resolver returns an inode only when every component of the
\* canonical path was matched, in order and in full, whatever the length
\* of the path: its working copy then holds every byte of the path after
\* the leading '/', all of it was tokenized, and the entry matched last
\* carries the last component of the path and the inode returned.
C20_EveryComponentMatched ==
  Resolved /\ rs.path # <<SLASH>> =>
    /\ rs.path_copy = Tail(rs.path)
    /\ ~rs.tok.found
    /\ rs.component = LastComponent(rs.path)
    /\ NameBytes(rs.entry.name) = rs.component
    /\ rs.entry.inode = rs.ret

----------------------------------------------------------------------------
(* Properties over superblocks of any geometry                             *)

\* C15: whenever the zone number found by get_file_blk is nonzero, the
\* value returned is zone_num * blks_per_zone + blk_in_zone as integers (so
\* it is not 0, the Hole value, and dividing it by blks_per_zone gives back
\* the zone number and the block in the zone).
C15_DiskBlockIsProductAndSum ==
  (call.op = "get_file_blk" /\ call.zone_num # 0) =>
    /\ call.ret # 0
    /\ call.ret \div blks_per_zone = call.zone_num
    /\ call.ret % blks_per_zone = call.L % blks_per_zone

\* C17: after a successful initialization the block size of the session is
\* positive, a multiple of 64 and a multiple of 4 (so a superblock with the
\* right magic and another block size was rejected).
C17_BlocksizeInvariant ==
  pc = "ready" =>
    /\ curr_sb.blksize > 0
    /\ curr_sb.blksize % DIR_ENTRY_SIZE = 0
    /\ curr_sb.blksize % PTR_SIZE = 0

\* C18: for every superblock accepted by initialization the list scan and
\* the resolve scan visit the same slots of a directory block, and each
\* visited slot of 64 bytes ends within the blksize bytes that were read.
C18_SameSlotsWithinBlock ==
  pc = "ready" =>
    /\ ListSlots = ResolveSlots
    /\ \A j \in ListSlots \cup ResolveSlots :
         (j + 1) * DIR_ENTRY_SIZE <= curr_sb.blksize

\* C19: the loops make progress towards their end: an iteration of the copy
\* loop leaves less to copy, and an iteration of a directory-block loop
\* changes the product i * blksize that its test compares with the size
\* (a loop whose tested value an iteration leaves as it was never ends).
C19_LoopsTerminate ==
  /\ [][(cp.state = "loop" /\ cp'.state = "loop" /\ cp' # cp)
          => cp'.remaining_size < cp.remaining_size]_vars
  /\ [][(call'.op = "dir_loop" /\ call' # call)
          => MulAddU32(call'.L, curr_sb.blksize, 0)
               # MulAddU32(call.L, curr_sb.blksize, 0)]_vars

====
